---- MODULE Spec2Model ----
(***************************************************************************)
(* Model of the timecode engine of chapterize_ab.py: the one-second        *)
(* decrementer (convert_time), the duration codec (parse_timestamp,        *)
(* format_timestamp_from_float), the chapter detector and end filling      *)
(* (parse_timecodes), the last-end assignment of apply_chapters and the    *)
(* cue sidecar writer/reader (write_cue_file, read_cue_file).              *)
(*                                                                         *)
(* A Python str is a sequence of one-character strings; a dict is a        *)
(* function whose DOMAIN is its key set; a call that may end the process   *)
(* or raise returns a record [outcome, code, value].                       *)
(***************************************************************************)
EXTENDS Integers, Sequences, FiniteSets, TLC

VARIABLES pc, time_in, conv_out, srt_content, language_features, total_duration, parse_out,
          chapters_out, cue_in, cue_fs, write_out, read_out,
          cue_file, timecodes_main, run, disk, stamp_out, text_out, table_out

\* what one call of one function reads and writes
call_vars == <<pc, time_in, conv_out, srt_content, language_features, total_duration,
               parse_out, chapters_out, cue_in, cue_fs, write_out, read_out>>

call_vars_but_pc == <<time_in, conv_out, srt_content, language_features, total_duration,
                      parse_out, chapters_out, cue_in, cue_fs, write_out, read_out>>

\* main's cue_file argument and its local timecodes; two runs of main that
\* write the same cue_path, and the directory entry and files they share
run_vars == <<cue_file, timecodes_main, run, disk, table_out>>

\* what parse_timestamp and format_timestamp_from_float returned for time_in
codec_vars == <<stamp_out, text_out>>

vars == <<call_vars, run_vars, codec_vars>>

-----------------------------------------------------------------------------
(* Python str primitives                                                   *)

Digits == <<"0", "1", "2", "3", "4", "5", "6", "7", "8", "9">>

\* Texts are sequences of one-character strings over Latin-1 (code points
\* 0 to 255).  The lower-case letters of Latin-1 whose upper case is in
\* Latin-1 too, and their upper cases, position by position:
Lowers == <<"a", "b", "c", "d", "e", "f", "g", "h", "i", "j", "k", "l", "m",
            "n", "o", "p", "q", "r", "s", "t", "u", "v", "w", "x", "y", "z",
            "à", "á", "â", "ã", "ä", "å", "æ", "ç", "è", "é", "ê", "ë", "ì",
            "í", "î", "ï", "ð", "ñ", "ò", "ó", "ô", "õ", "ö", "ø", "ù", "ú",
            "û", "ü", "ý", "þ">>

Uppers == <<"A", "B", "C", "D", "E", "F", "G", "H", "I", "J", "K", "L", "M",
            "N", "O", "P", "Q", "R", "S", "T", "U", "V", "W", "X", "Y", "Z",
            "À", "Á", "Â", "Ã", "Ä", "Å", "Æ", "Ç", "È", "É", "Ê", "Ë", "Ì",
            "Í", "Î", "Ï", "Ð", "Ñ", "Ò", "Ó", "Ô", "Õ", "Ö", "Ø", "Ù", "Ú",
            "Û", "Ü", "Ý", "Þ">>

\* the other cased letters of Latin-1, all lower case
OtherLowers == {"ª", "µ", "º", "ß", "ÿ"}

Range(s) == {s[k] : k \in DOMAIN s}

IndexOf(s, c) == CHOOSE k \in DOMAIN s : s[k] = c

DigitSet == Range(Digits)

IsDigit(c) == c \in DigitSet

DigitVal(c) == IndexOf(Digits, c) - 1

AllDigits(t) == Len(t) > 0 /\ \A k \in DOMAIN t : IsDigit(t[k])

\* str(n) for an int n
RECURSIVE NatStr(_)
NatStr(n) ==
    IF n < 10 THEN <<Digits[n + 1]>>
    ELSE NatStr(n \div 10) \o <<Digits[(n % 10) + 1]>>

str(n) == IF n < 0 THEN <<"-">> \o NatStr(0 - n) ELSE NatStr(n)

\* the value of a non-empty run of ASCII digits
RECURSIVE DigitsVal(_)
DigitsVal(t) ==
    IF Len(t) = 0 THEN 0
    ELSE 10 * DigitsVal(SubSeq(t, 1, Len(t) - 1)) + DigitVal(t[Len(t)])

\* the blanks int() strips from both ends of its text
IntSpace == {"\t", "\n", "", "\f", "\r", " ", "", " "}

RECURSIVE LStrip(_)
LStrip(t) == IF Len(t) > 0 /\ t[1] \in IntSpace THEN LStrip(Tail(t)) ELSE t

RECURSIVE RStrip(_)
RStrip(t) ==
    IF Len(t) > 0 /\ t[Len(t)] \in IntSpace THEN RStrip(SubSeq(t, 1, Len(t) - 1))
    ELSE t

\* int(t) strips the blanks around t and accepts an optional sign followed
\* by digits, with single underscores between digits; anything else raises
\* ValueError (IntOk false).
IntSigned(t) == RStrip(LStrip(t))

IntBody(t) ==
    LET u == IntSigned(t) IN
      IF Len(u) > 0 /\ u[1] \in {"-", "+"} THEN Tail(u) ELSE u

\* digits, each underscore between two digits
Grouped(b) ==
    /\ Len(b) > 0
    /\ \A k \in DOMAIN b :
          \/ IsDigit(b[k])
          \/ /\ b[k] = "_"
             /\ k > 1 /\ k < Len(b)
             /\ IsDigit(b[k - 1]) /\ IsDigit(b[k + 1])

IntOk(t) == Grouped(IntBody(t))

int(t) ==
    LET u == IntSigned(t)
        d == SelectSeq(IntBody(t), IsDigit)
    IN IF Len(u) > 0 /\ u[1] = "-" THEN 0 - DigitsVal(d) ELSE DigitsVal(d)

\* '{:0w}'.format(n) for n >= 0
RECURSIVE ZeroPad(_, _)
ZeroPad(t, w) == IF Len(t) >= w THEN t ELSE ZeroPad(<<"0">> \o t, w)

Format0(n, w) == ZeroPad(NatStr(n), w)

\* t.startswith(x) at offset k (1-based)
MatchAt(t, x, k) ==
    /\ k + Len(x) - 1 <= Len(t)
    /\ \A j \in 1..Len(x) : t[k + j - 1] = x[j]

\* x in t
Contains(t, x) == \E k \in 1..(Len(t) + 1) : MatchAt(t, x, k)

\* t.split(sep) for a one-character sep
RECURSIVE Split(_, _)
Split(t, sep) ==
    IF \A k \in DOMAIN t : t[k] # sep THEN <<t>>
    ELSE LET p == CHOOSE k \in DOMAIN t :
                      t[k] = sep /\ \A j \in 1..(k - 1) : t[j] # sep
         IN  <<SubSeq(t, 1, p - 1)>> \o Split(SubSeq(t, p + 1, Len(t)), sep)

\* sep.join(parts)
RECURSIVE Join(_, _)
Join(parts, sep) ==
    IF Len(parts) = 0 THEN <<>>
    ELSE IF Len(parts) = 1 THEN parts[1]
    ELSE parts[1] \o sep \o Join(Tail(parts), sep)

\* t.replace(a, b) for one-character a and b
Replace(t, a, b) == [k \in DOMAIN t |-> IF t[k] = a THEN b ELSE t[k]]

\* t.title(): a letter is title-cased after a non-letter and lower-cased
\* after a letter
LowerSet == Range(Lowers)

UpperSet == Range(Uppers)

IsLetter(c) == c \in LowerSet \/ c \in UpperSet \/ c \in OtherLowers

\* the title case of a letter, as a text: that of the sharp s has two
\* letters, those of the micro sign and of y with diaeresis lie outside
\* Latin-1 (U+039C; U+0178, written here by its code point)
ToTitle(c) ==
    IF c \in LowerSet THEN <<Uppers[IndexOf(Lowers, c)]>>
    ELSE IF c = "ß" THEN <<"S", "s">>
    ELSE IF c = "µ" THEN <<"Μ">>
    ELSE IF c = "ÿ" THEN <<"U+0178">>
    ELSE <<c>>

ToLower(c) == IF c \in UpperSet THEN Lowers[IndexOf(Uppers, c)] ELSE c

RECURSIVE TitleFrom(_, _)
TitleFrom(t, k) ==
    IF k > Len(t) THEN <<>>
    ELSE (IF k > 1 /\ IsLetter(t[k - 1]) THEN <<ToLower(t[k])>> ELSE ToTitle(t[k]))
         \o TitleFrom(t, k + 1)

Title(t) == TitleFrom(t, 1)

\* outcomes of a call
Returned(v) == [outcome |-> "return", code |-> 0, value |-> v]

Exited(c) == [outcome |-> "exit", code |-> c, value |-> <<>>]

Raised(e) == [outcome |-> e, code |-> 0, value |-> <<>>]

-----------------------------------------------------------------------------
(* convert_time                                                            *)

\* re.compile(r'0\d').match(t)
LeadingZero(t) == Len(t) >= 2 /\ t[1] = "0" /\ IsDigit(t[2])

\* a borrow that leaves the field it borrows from as it was
BorrowFieldKept(f) == f

\* first / mid of the borrow branches: the field minus one, with a "0"
\* put in front when the field began with 0 and a digit
BorrowField(f) ==
    IF LeadingZero(f) THEN <<"0">> \o str(int(f) - 1) ELSE str(int(f) - 1)

\* the rewritten parts list, given last; <<>> never results from a success
ConvertParts(parts, last) ==
    IF LeadingZero(last)
    THEN IF parts[2] = <<"0", "0">> /\ last = <<"0", "0">>
         THEN <<BorrowField(parts[1]), <<"5", "9">>, <<"5", "9">> >>
         ELSE IF last = <<"0", "0">>
         THEN <<parts[1], BorrowField(parts[2]), <<"5", "9">> >>
         ELSE [parts EXCEPT ![Len(parts)] = <<"0">> \o str(int(last) - 1)]
    ELSE [parts EXCEPT ![Len(parts)] = str(int(last) - 1)]

\* whether the try block raises (every exception there ends in sys.exit(6))
ConvertRaises(parts, tail) ==
    \/ Len(tail) # 2
    \/ LET last == tail[1] IN
         IF LeadingZero(last)
         THEN \/ Len(parts) < 2
              \/ /\ parts[2] = <<"0", "0">> /\ last = <<"0", "0">>
                 /\ ~IntOk(parts[1])
              \/ /\ ~(parts[2] = <<"0", "0">> /\ last = <<"0", "0">>)
                 /\ last = <<"0", "0">>
                 /\ ~IntOk(parts[2])
              \/ /\ last # <<"0", "0">>
                 /\ ~IntOk(last)
         ELSE ~IntOk(last)

convert_time(time) ==
    LET parts == Split(time, ":")
        tail  == Split(parts[Len(parts)], ".")
    IN  IF ConvertRaises(parts, tail) THEN Exited(6)
        ELSE Returned(Join(ConvertParts(parts, tail[1]), <<":">>)
                      \o <<".">> \o tail[2])

-----------------------------------------------------------------------------
(* Duration codec: parse_timestamp and format_timestamp_from_float         *)

\* one %H / %M / %S directive of strptime: one or two digits, at most max
FieldOk(f, max) == AllDigits(f) /\ Len(f) <= 2 /\ DigitsVal(f) <= max

\* %f: one to six digits, read as a fraction of a second, in microseconds
RECURSIVE PadRight(_, _)
PadRight(t, w) == IF Len(t) >= w THEN t ELSE PadRight(t \o <<"0">>, w)

FractionOk(f) == AllDigits(f) /\ Len(f) <= 6

\* the text handed to strptime: '.0' is appended when there is no '.'
WithFraction(time) ==
    IF \E k \in DOMAIN time : time[k] = "." THEN time
    ELSE time \o <<".", "0">>

\* datetime.strptime(time, "%H:%M:%S.%f") accepts the text
TimestampOk(time) ==
    LET parts == Split(WithFraction(time), ":") IN
      /\ Len(parts) = 3
      /\ FieldOk(parts[1], 23)
      /\ FieldOk(parts[2], 59)
      /\ LET tail == Split(parts[3], ".") IN
           /\ Len(tail) = 2
           /\ FieldOk(tail[1], 59)
           /\ FractionOk(tail[2])

\* timedelta(...): a timedelta is kept normalized as days, seconds
\* (0..86399) and microseconds (0..999999)
timedelta(whole_seconds, microseconds) ==
    [days         |-> whole_seconds \div 86400,
     seconds      |-> whole_seconds % 86400,
     microseconds |-> microseconds]

\* the timedelta of an accepted text
TimestampDelta(time) ==
    LET parts == Split(WithFraction(time), ":")
        tail  == Split(parts[3], ".")
    IN  timedelta((DigitsVal(parts[1]) * 60 + DigitsVal(parts[2])) * 60
                      + DigitsVal(tail[1]),
                  DigitsVal(PadRight(tail[2], 6)))

\* value: the timedelta; ValueError when strptime rejects the text
parse_timestamp(time) ==
    IF TimestampOk(time)
    THEN [outcome |-> "return", code |-> 0, value |-> TimestampDelta(time)]
    ELSE [outcome |-> "ValueError", code |-> 0, value |-> timedelta(0, 0)]

\* td is timedelta(seconds=seconds) of the float argument; the code reads
\* td.seconds and td.microseconds only, never td.days
format_timestamp_from_float(td) ==
    LET hours     == td.seconds \div 3600
        remainder == td.seconds % 3600
        minutes   == remainder \div 60
        seconds   == remainder % 60
        millis    == td.microseconds \div 1000
    IN  Format0(hours, 2) \o <<":">> \o Format0(minutes, 2) \o <<":">>
        \o Format0(seconds, 2) \o <<",">> \o Format0(millis, 3)

-----------------------------------------------------------------------------
(* parse_timecodes                                                         *)

\* the characters r'\s' matches
Whitespace == {"\t", "\n", "", "\f", "\r", "", "", "", "", " ", "", " "}

\* the end of the run of digits that starts at k (k - 1 when there is none)
RECURSIVE DigitRunEnd(_, _)
DigitRunEnd(line, k) ==
    IF k <= Len(line) /\ IsDigit(line[k]) THEN DigitRunEnd(line, k + 1)
    ELSE k - 1

\* r'\d\d:\d\d:\d\d,\d+(?=\s-)' matches at offset k
StartMatchAt(line, k) ==
    /\ k + 9 <= Len(line)
    /\ \A j \in {0, 1, 3, 4, 6, 7, 9} : IsDigit(line[k + j])
    /\ line[k + 2] = ":" /\ line[k + 5] = ":" /\ line[k + 8] = ","
    /\ LET e == DigitRunEnd(line, k + 9) IN
         /\ e + 2 <= Len(line)
         /\ line[e + 1] \in Whitespace
         /\ line[e + 2] = "-"

\* re.search: the offset of the leftmost match from k on, 0 when none
RECURSIVE FirstStart(_, _)
FirstStart(line, k) ==
    IF k > Len(line) THEN 0
    ELSE IF StartMatchAt(line, k) THEN k
    ELSE FirstStart(line, k + 1)

StartFound(line) == FirstStart(line, 1) # 0

\* group(0) of the leftmost match, with ',' replaced by '.'
StartOf(line) ==
    LET k == FirstStart(line, 1) IN
      Replace(SubSeq(line, k, DigitRunEnd(line, k + 9)), ",", ".")

\* any(x in content for x in phrases)
AnyIn(phrases, content) == \E k \in DOMAIN phrases : Contains(content, phrases[k])

\* the guard of the scan at 1-based position i
Candidate(srt, excluded_phrases, markers, i) ==
    /\ i # Len(srt)
    /\ ~AnyIn(excluded_phrases, srt[i + 1])
    /\ AnyIn(markers, srt[i + 1])

\* which branch of the if / elif chain classifies the content line
Branch(markers, content) ==
    IF Contains(content, markers[1]) \/ Contains(content, markers[2]) THEN "prologue"
    ELSE IF Contains(content, markers[3]) THEN "chapter"
    ELSE IF Contains(content, markers[4]) THEN "epilogue"
    ELSE "none"

\* the scan with a counter that every accepted boundary advances
RECURSIVE ScanCountingAll(_, _, _, _, _, _)

ChapterCount(counter) ==
    IF counter < 10 THEN <<"0">> \o str(counter) ELSE str(counter)

ChapterType(markers, content, counter) ==
    LET branch == Branch(markers, content) IN
      CASE branch = "prologue" -> Title(markers[1])
        [] branch = "chapter" -> Title(markers[3]) \o <<" ">> \o ChapterCount(counter)
        [] branch = "epilogue" -> Title(markers[3])
        [] OTHER -> <<>>

ZeroStart == <<"0", "0", ":", "0", "0", ":", "0", "0">>

\* a time_dict that always carries the extracted start
TimeDictAsRead(timecodes, start, chapter_type) ==
    [start |-> start, chapter_type |-> chapter_type]

TimeDict(timecodes, start, chapter_type) ==
    IF Len(timecodes) = 0
    THEN [start |-> ZeroStart, chapter_type |-> chapter_type]
    ELSE [start |-> start, chapter_type |-> chapter_type]

ScanCountingAll(srt, excluded_phrases, markers, i, timecodes, counter) ==
    IF i > Len(srt) THEN timecodes
    ELSE IF Candidate(srt, excluded_phrases, markers, i) /\ StartFound(srt[i])
    THEN ScanCountingAll(srt, excluded_phrases, markers, i + 1,
                         Append(timecodes,
                                TimeDict(timecodes, StartOf(srt[i]),
                                         ChapterType(markers, srt[i + 1], counter))),
                         counter + 1)
    ELSE ScanCountingAll(srt, excluded_phrases, markers, i + 1, timecodes, counter)

\* the for loop over srt_content from position i on, with its two locals
RECURSIVE Scan(_, _, _, _, _, _)
Scan(srt, excluded_phrases, markers, i, timecodes, counter) ==
    IF i > Len(srt) THEN timecodes
    ELSE IF Candidate(srt, excluded_phrases, markers, i) /\ StartFound(srt[i])
    THEN Scan(srt, excluded_phrases, markers, i + 1,
              Append(timecodes,
                     TimeDict(timecodes, StartOf(srt[i]),
                              ChapterType(markers, srt[i + 1], counter))),
              IF Branch(markers, srt[i + 1]) = "chapter" THEN counter + 1 ELSE counter)
    ELSE Scan(srt, excluded_phrases, markers, i + 1, timecodes, counter)

\* an end loop that stores the next start as it is
EndCallsUndecremented(timecodes) ==
    [i \in 1..(Len(timecodes) - 1) |-> Returned(timecodes[i + 1].start)]

\* the convert_time calls of the end loop: one for every entry but the last
EndCalls(timecodes) ==
    [i \in 1..(Len(timecodes) - 1) |-> convert_time(timecodes[i + 1].start)]

\* d['end'] = convert_time(next start) for every entry but the last
FillEnds(timecodes, calls) ==
    [i \in DOMAIN timecodes |->
        IF i # Len(timecodes)
        THEN ("end" :> calls[i].value) @@ timecodes[i]
        ELSE timecodes[i]]

\* some convert_time call of the end loop leaves through sys.exit(6)
FillExits(calls) == \E i \in DOMAIN calls : calls[i].outcome = "exit"

\* parse_timecodes handing an empty list back to its caller
parse_timecodes_EmptyReturned(srt, features) ==
    IF Len(features.excluded_phrases) = 0 \/ Len(features.markers) = 0
    THEN Exited(13)
    ELSE LET timecodes == Scan(srt, features.excluded_phrases, features.markers,
                               1, <<>>, 1)
             calls == EndCalls(timecodes)
         IN  IF FillExits(calls) THEN Exited(6)
             ELSE Returned(FillEnds(timecodes, calls))

\* parse_timecodes asking only for markers before it scans
parse_timecodes_MarkersOnly(srt, features) ==
    IF Len(features.markers) = 0
    THEN Exited(13)
    ELSE LET timecodes == Scan(srt, features.excluded_phrases, features.markers,
                               1, <<>>, 1)
             calls == EndCalls(timecodes)
         IN  IF FillExits(calls) THEN Exited(6)
             ELSE IF Len(timecodes) > 0 THEN Returned(FillEnds(timecodes, calls))
             ELSE Exited(8)

\* features: what get_language_features returned, as
\* [excluded_phrases, markers]; an undefined language gives empty ones
parse_timecodes(srt, features) ==
    IF Len(features.excluded_phrases) = 0 \/ Len(features.markers) = 0
    THEN Exited(13)
    ELSE LET timecodes == Scan(srt, features.excluded_phrases, features.markers,
                               1, <<>>, 1)
             calls == EndCalls(timecodes)
         IN  IF FillExits(calls) THEN Exited(6)
             ELSE IF Len(timecodes) > 0 THEN Returned(FillEnds(timecodes, calls))
             ELSE Exited(8)

-----------------------------------------------------------------------------
(* apply_chapters                                                          *)

\* the first thing that fails when the [CHAPTER] block of d is built:
\* times['start'], parse_timestamp of it, times['end'], parse_timestamp of
\* it, times['chapter_type'], in that order; "none" when the block is built
BlockError(d) ==
    IF "start" \notin DOMAIN d THEN "KeyError"
    ELSE IF parse_timestamp(d.start).outcome # "return" THEN "ValueError"
    ELSE IF "end" \notin DOMAIN d THEN "KeyError"
    ELSE IF parse_timestamp(d.end).outcome # "return" THEN "ValueError"
    ELSE IF "chapter_type" \notin DOMAIN d THEN "KeyError"
    ELSE "none"

ChapterBlock(d) ==
    [START |-> parse_timestamp(d.start).value,
     END   |-> parse_timestamp(d.end).value,
     TITLE |-> d.chapter_type]

\* the last end is set only where the last entry has none
SetLastEndIfAbsent(timecodes, td) ==
    IF "end" \in DOMAIN timecodes[Len(timecodes)] THEN timecodes
    ELSE [timecodes EXCEPT ![Len(timecodes)] =
             ("end" :> Replace(format_timestamp_from_float(td), ",", ".")) @@ @]

\* timecodes[-1]['end'] = format_timestamp_from_float(...).replace(',', '.')
SetLastEnd(timecodes, td) ==
    [timecodes EXCEPT ![Len(timecodes)] =
        ("end" :> Replace(format_timestamp_from_float(td), ",", ".")) @@ @]

\* td: the timedelta of get_total_duration's float; cover_art: whether main
\* found a cover (FALSE: cover_art is None).  The result holds the list as
\* the call leaves it and the chapter blocks written.  Without a cover
\* command.extend(*stream) on line 618 raises TypeError, after the chapter
\* blocks were written and before ffmpeg is run.
apply_chapters(timecodes, td, cover_art) ==
    IF Len(timecodes) = 0
    THEN [outcome |-> "IndexError", timecodes |-> timecodes, chapters |-> <<>>]
    ELSE LET final  == SetLastEnd(timecodes, td)
             errors == [k \in DOMAIN final |-> BlockError(final[k])]
         IN
         IF \E i \in DOMAIN final : errors[i] # "none"
         THEN LET i == CHOOSE k \in DOMAIN final :
                           /\ errors[k] # "none"
                           /\ \A j \in 1..(k - 1) : errors[j] = "none"
              IN  [outcome   |-> errors[i],
                   timecodes |-> final,
                   chapters  |-> [j \in 1..(i - 1) |-> ChapterBlock(final[j])]]
         ELSE [outcome   |-> IF cover_art THEN "return" ELSE "TypeError",
               timecodes |-> final,
               chapters  |-> [j \in DOMAIN final |-> ChapterBlock(final[j])]]

-----------------------------------------------------------------------------
(* The cue sidecar: write_cue_file and read_cue_file                       *)

\* A file is [exists, lines]: its lines without their '\n'.
NoFile == [exists |-> FALSE, lines |-> <<>>]

FileOf(lines) == [exists |-> TRUE, lines |-> lines]

Tab == "\t"

Quote == "\""

KwFile == <<"F", "I", "L", "E">>

KwTrack == <<"T", "R", "A", "C", "K">>

KwAudio == <<"A", "U", "D", "I", "O">>

KwTitle == <<"T", "I", "T", "L", "E">>

KwStart == <<"S", "T", "A", "R", "T">>

KwEnd == <<"E", "N", "D">>

\* f'FILE "{cue_path.stem}.mp3" MP3'
HeaderLine(stem) ==
    KwFile \o <<" ", Quote>> \o stem \o <<".", "m", "p", "3", Quote, " ", "M", "P", "3">>

TrackLine(i) == KwTrack \o <<" ">> \o str(i) \o <<" ">> \o KwAudio

TitleLine(d) == <<" ", " ">> \o KwTitle \o <<Tab, Quote>> \o d.chapter_type \o <<Quote>>

StartLine(d) == <<" ", " ">> \o KwStart \o <<Tab>> \o d.start

EndLine(d) == <<" ", " ">> \o KwEnd \o <<Tab, Tab>> \o d.end

\* the lines of track i are written when its dict has the keys they read
HeadKeys(d) == {"chapter_type", "start"} \subseteq DOMAIN d

EndKey(timecodes, i) == i = Len(timecodes) \/ "end" \in DOMAIN timecodes[i]

\* what the loop writes for tracks i.., stopping where a KeyError is raised
RECURSIVE TrackLines(_, _)
TrackLines(timecodes, i) ==
    IF i > Len(timecodes) \/ ~HeadKeys(timecodes[i]) THEN <<>>
    ELSE <<TrackLine(i), TitleLine(timecodes[i]), StartLine(timecodes[i])>>
         \o (IF ~EndKey(timecodes, i) THEN <<>>
             ELSE (IF i # Len(timecodes) THEN <<EndLine(timecodes[i])>> ELSE <<>>)
                  \o TrackLines(timecodes, i + 1))

WriteKeyError(timecodes) ==
    \E i \in DOMAIN timecodes : ~HeadKeys(timecodes[i]) \/ ~EndKey(timecodes, i)

\* file: the file at cue_path before the call; os_error: a write fails with
\* OSError.  open(cue_path, 'x') raises FileExistsError, an OSError, when
\* the file exists; the handler unlinks cue_path whenever it exists.
write_cue_file(timecodes, stem, file, os_error) ==
    IF file.exists \/ os_error
    THEN [outcome |-> "return", flag |-> FALSE, file |-> NoFile]
    ELSE IF WriteKeyError(timecodes)
    THEN [outcome |-> "KeyError", flag |-> FALSE,
          file |-> FileOf(<<HeaderLine(stem)>> \o TrackLines(timecodes, 1))]
    ELSE [outcome |-> "return", flag |-> TRUE,
          file |-> FileOf(<<HeaderLine(stem)>> \o TrackLines(timecodes, 1))]

\* the index of the last '"' of the line (0 when there is none)
LastQuote(line) ==
    IF \E q \in DOMAIN line : line[q] = Quote
    THEN CHOOSE q \in DOMAIN line :
             line[q] = Quote /\ \A r \in (q + 1)..Len(line) : line[r] # Quote
    ELSE 0

\* r'TITLE\t"(.*)"' matches at offset k
TitleMatchAt(line, k) ==
    MatchAt(line, KwTitle \o <<Tab, Quote>>, k) /\ LastQuote(line) >= k + 7

\* r'START\t(.+)' matches at offset k
StartFieldAt(line, k) == MatchAt(line, KwStart \o <<Tab>>, k) /\ k + 6 <= Len(line)

\* the end of the run of tabs that starts at k (k - 1 when there is none)
RECURSIVE TabRunEnd(_, _)
TabRunEnd(line, k) ==
    IF k <= Len(line) /\ line[k] = Tab THEN TabRunEnd(line, k + 1) ELSE k - 1

\* r'END\t+(.+)' matches at offset k: something follows the tabs, or the
\* line ends in two tabs or more and the last one is the group
EndFieldAt(line, k) ==
    /\ MatchAt(line, KwEnd \o <<Tab>>, k)
    /\ \/ TabRunEnd(line, k + 3) < Len(line)
       \/ TabRunEnd(line, k + 3) >= k + 4

\* re.search: whether the pattern matches somewhere, and the leftmost offset
TitleFound(line) == \E k \in DOMAIN line : TitleMatchAt(line, k)

StartFieldFound(line) == \E k \in DOMAIN line : StartFieldAt(line, k)

EndFound(line) == \E k \in DOMAIN line : EndFieldAt(line, k)

TitleAt(line) ==
    CHOOSE k \in DOMAIN line :
        TitleMatchAt(line, k) /\ \A j \in 1..(k - 1) : ~TitleMatchAt(line, j)

StartAt(line) ==
    CHOOSE k \in DOMAIN line :
        StartFieldAt(line, k) /\ \A j \in 1..(k - 1) : ~StartFieldAt(line, j)

EndAt(line) ==
    CHOOSE k \in DOMAIN line :
        EndFieldAt(line, k) /\ \A j \in 1..(k - 1) : ~EndFieldAt(line, j)

TitleGroup(line) ==
    SubSeq(line, TitleAt(line) + 7, LastQuote(line) - 1)

StartGroup(line) == SubSeq(line, StartAt(line) + 6, Len(line))

\* the group of r'END\t(.+)': all that follows the first tab
EndGroupAfterOneTab(line) ==
    SubSeq(line, EndAt(line) + 4, Len(line))

EndGroup(line) ==
    LET e == TabRunEnd(line, EndAt(line) + 3) IN
      IF e < Len(line) THEN SubSeq(line, e + 1, Len(line)) ELSE <<Tab>>

\* re.search(...)[1] on a line that holds the keyword and does not match:
\* None[1] raises TypeError, which the except clause does not catch
FieldRaises(content, i, line) ==
    \/ Contains(line, KwTitle) /\ ~TitleFound(line)
    \/ Contains(line, KwStart) /\ ~StartFieldFound(line)
    \/ Contains(line, KwEnd) /\ i # Len(content) - 1 /\ ~EndFound(line)

\* time_dict after the three field assignments of the try block
WithFields(content, i, line, time_dict) ==
    LET a == IF Contains(line, KwTitle)
             THEN ("chapter_type" :> TitleGroup(line)) @@ time_dict ELSE time_dict
        b == IF Contains(line, KwStart)
             THEN ("start" :> StartGroup(line)) @@ a ELSE a
    IN  IF Contains(line, KwEnd) /\ i # Len(content) - 1
        THEN ("end" :> EndGroup(line)) @@ b ELSE b

\* The loop over content[1:] from its 0-based index i on.  A dict appended
\* to timecodes stays the object time_dict names until time_dict is rebound,
\* so timecodes holds references into heap and cur is the one time_dict
\* names.
RECURSIVE ReadLoop(_, _, _, _, _)
ReadLoop(content, i, timecodes, heap, cur) ==
    IF i > Len(content) - 2
    THEN [outcome |-> "return", value |-> [k \in DOMAIN timecodes |-> heap[timecodes[k]]]]
    ELSE LET line == content[i + 2] IN
         IF FieldRaises(content, i, line)
         THEN [outcome |-> "TypeError", value |-> <<>>]
         ELSE LET time_dict == WithFields(content, i, line, heap[cur])
                  stored    == [heap EXCEPT ![cur] = time_dict]
              IN  IF Contains(line, KwTrack) /\ DOMAIN time_dict # {}
                  THEN ReadLoop(content, i + 1, Append(timecodes, cur),
                                Append(stored, <<>>), Len(stored) + 1)
                  ELSE IF line = content[Len(content)] /\ DOMAIN time_dict # {}
                  THEN ReadLoop(content, i + 1, Append(timecodes, cur), stored, cur)
                  ELSE ReadLoop(content, i + 1, timecodes, stored, cur)

\* content: the lines of the file.  A return of None is is_none.
read_cue_file(content) ==
    LET r == ReadLoop(content, 0, <<>>, <<<<>>>>, 1) IN
      IF r.outcome # "return"
      THEN [outcome |-> r.outcome, is_none |-> FALSE, value |-> <<>>]
      ELSE IF Len(r.value) > 0
      THEN [outcome |-> "return", is_none |-> FALSE, value |-> r.value]
      ELSE [outcome |-> "return", is_none |-> TRUE, value |-> <<>>]

-----------------------------------------------------------------------------
(* Inputs                                                                  *)

MaxHours == 10

MaxPairs == 2

MaxChapters == 10

MaxTracks == 3

\* the hours field is written in two or three digits
HourWidths == {2, 3}

\* HH:MM:SS with the hours in w digits
Clock(h, w, m, s) ==
    Format0(h, w) \o <<":">> \o Format0(m, 2) \o <<":">> \o Format0(s, 2)

MillisTexts == {<<"0", "0", "0">>, <<"5", "0", "0">>}

\* a well-formed HH:MM:SS.mmm input of convert_time
TimeInput(h, w, m, s, ms) == Clock(h, w, m, s) \o <<".">> \o ms

\* what the call of a variable's operation has not produced yet
Idle == Exited(0)

IdleChapters == [outcome |-> "idle", timecodes |-> <<>>, chapters |-> <<>>]

IdleWrite == [outcome |-> "idle", flag |-> FALSE, file |-> NoFile]

IdleStamp == [outcome |-> "idle", code |-> 0, value |-> timedelta(0, 0)]

IdleRead == [outcome |-> "idle", is_none |-> FALSE, value |-> <<>>]

\* print_table not called yet
IdleTable == [outcome |-> "idle", rows |-> <<>>]

NoFeatures == [excluded_phrases |-> <<>>, markers |-> <<>>]

\* a transcript timestamp line: HH:MM:SS,mmm --> HH:MM:SS,mmm
Stamp(h, m, s, ms) == Clock(h, 2, m, s) \o <<",">> \o Format0(ms, 3)

Arrow == <<" ", "-", "-", ">", " ">>

TsLine(start, end) == start \o Arrow \o end

\* the start field of such a line as the boundary list carries it
StartField(line) == Replace(SubSeq(line, 1, 12), ",", ".")

\* marker tables as get_language_features may return them (model/models.py
\* is not part of the sources; the shape is the MarkerTable of the design:
\* four positional markers and a set of excluded phrases)
EnglishMarkers == <<<<"p", "r", "o", "l", "o", "g", "u", "e">>, <<"p", "r", "e", "f", "a", "c", "e">>, <<"c", "h", "a", "p", "t", "e", "r">>, <<"e", "p", "i", "l", "o", "g", "u", "e">>>>

TitleMarkers == <<<<"P", "r", "o", "l", "o", "g", "u", "e">>, <<"P", "r", "e", "f", "a", "c", "e">>, <<"C", "h", "a", "p", "t", "e", "r">>, <<"E", "p", "i", "l", "o", "g", "u", "e">>>>

EnglishLower == [excluded_phrases |-> <<<<"c", "h", "a", "p", "t", "e", "r", "s">>>>, markers |-> EnglishMarkers]

EnglishTitle == [excluded_phrases |-> <<<<"C", "h", "a", "p", "t", "e", "r", "s">>>>, markers |-> TitleMarkers]

NoExclusions == [excluded_phrases |-> <<>>, markers |-> EnglishMarkers]

\* content lines
SaysChapter == <<"c", "h", "a", "p", "t", "e", "r", " ", "o", "n", "e">>

SaysPrologue == <<"t", "h", "e", " ", "p", "r", "o", "l", "o", "g", "u", "e">>

SaysPreface == <<"a", " ", "p", "r", "e", "f", "a", "c", "e">>

SaysEpilogue == <<"e", "p", "i", "l", "o", "g", "u", "e">>

SaysPrologueChapter == <<"p", "r", "o", "l", "o", "g", "u", "e", " ", "t", "o", " ", "c", "h", "a", "p", "t", "e", "r", " ", "o", "n", "e">>

SaysExcluded == <<"t", "h", "e", "s", "e", " ", "c", "h", "a", "p", "t", "e", "r", "s">>

SaysNothing == <<"h", "e", "l", "l", "o">>

ChapterOneBegins == <<"C", "h", "a", "p", "t", "e", "r", " ", "O", "n", "e", " ", "b", "e", "g", "i", "n", "s">>

ChapterTwoStarts == <<"C", "h", "a", "p", "t", "e", "r", " ", "T", "w", "o", " ", "s", "t", "a", "r", "t", "s">>

ContentLines ==
    {SaysChapter, SaysPrologue, SaysPreface, SaysEpilogue, SaysPrologueChapter,
     SaysExcluded, SaysNothing}

ShortContentLines == {SaysChapter, SaysPrologue, SaysEpilogue, SaysExcluded, SaysNothing}

\* a line that carries no start the detector can read
BadTsLine == TsLine(<<"1", "0", ":", "0", "0">>, <<"1", "0", ":", "0", "5">>)

TsLines ==
    {TsLine(Stamp(0, 0, 1, 0), Stamp(0, 0, 3, 0)),
     TsLine(Stamp(0, 5, 10, 500), Stamp(0, 5, 12, 0)),
     BadTsLine}

\* every transcript of at most MaxPairs (timestamp line, content line) pairs
RECURSIVE PairTranscripts(_)
PairTranscripts(n) ==
    IF n = 0 THEN {<<>>}
    ELSE LET shorter == PairTranscripts(n - 1) IN
         shorter \cup {t \o <<ts, c>> : t \in shorter, ts \in TsLines, c \in ShortContentLines}

\* n chapter announcements, one a minute, and one other pair before the
\* p-th of them (p = 0: none)
ChapterPair(k) == <<TsLine(Stamp(0, k, 10, 0), Stamp(0, k, 12, 0)), SaysChapter>>

RECURSIVE ChapterRun(_, _)
ChapterRun(from, to) ==
    IF from > to THEN <<>> ELSE ChapterPair(from) \o ChapterRun(from + 1, to)

InsertedPairs ==
    {<<ts, c>> : ts \in {TsLine(Stamp(0, 30, 0, 0), Stamp(0, 30, 2, 0)), BadTsLine},
                 c \in ContentLines}

LongTranscripts ==
    {ChapterRun(1, n) : n \in 0..MaxChapters}
    \cup UNION {{ChapterRun(1, p - 1) \o x \o ChapterRun(p, n) :
                     p \in 1..(n + 1), x \in InsertedPairs} : n \in 0..MaxChapters}

\* the transcript of the worked example
ExampleTranscript ==
    <<TsLine(Stamp(0, 0, 1, 0), Stamp(0, 0, 3, 0)), ChapterOneBegins,
      TsLine(Stamp(0, 10, 0, 0), Stamp(0, 10, 5, 0)), ChapterTwoStarts>>

TitleTranscripts ==
    {ExampleTranscript,
     ExampleTranscript \o <<TsLine(Stamp(1, 0, 0, 0), Stamp(1, 0, 2, 0)), SaysChapter>>,
     <<TsLine(Stamp(0, 0, 1, 0), Stamp(0, 0, 3, 0)), <<"C", "h", "a", "p", "t", "e", "r", "s", " ", "o", "f", " ", "a", " ", "C", "h", "a", "p", "t", "e", "r">>>>
        \o ExampleTranscript,
     <<BadTsLine, ChapterOneBegins>> \o ExampleTranscript}

\* timestamp lines with another blank than a space before the arrow
BlankTsLine(blank) ==
    Stamp(0, 20, 0, 0) \o <<blank, "-", "-", ">", " ">> \o Stamp(0, 20, 2, 0)

BlankTranscripts ==
    {ChapterPair(1) \o <<BlankTsLine(blank), SaysChapter>> :
        blank \in {"\f", "\t", " ", "_"}}

\* a table with letters outside ASCII, and a transcript in its language
AccentMarkers == <<<<"p", "r", "ó", "l", "o", "g", "o">>, <<"p", "r", "e", "f", "a", "c", "i", "o">>, <<"c", "a", "p", "í", "t", "u", "l", "o">>, <<"é", "p", "i", "l", "o", "g", "o">>>>

AccentTable == [excluded_phrases |-> <<<<"c", "a", "p", "í", "t", "u", "l", "o", "s">>>>, markers |-> AccentMarkers]

AccentTranscripts ==
    {<<TsLine(Stamp(0, 0, 1, 0), Stamp(0, 0, 3, 0)), first,
       TsLine(Stamp(0, 10, 0, 0), Stamp(0, 10, 5, 0)), second>> :
        first, second \in {<<"p", "r", "ó", "l", "o", "g", "o">>,
                           <<"c", "a", "p", "í", "t", "u", "l", "o", " ", "u", "n", "o">>,
                           <<"é", "p", "i", "l", "o", "g", "o">>}}

ParseInputs ==
    ((PairTranscripts(MaxPairs) \cup LongTranscripts \cup {ExampleTranscript}
        \cup BlankTranscripts)
        \X {EnglishLower})
    \cup (AccentTranscripts \X {AccentTable})
    \cup (TitleTranscripts \X {EnglishTitle})
    \cup ((PairTranscripts(1) \cup {ExampleTranscript}) \X {NoExclusions})

\* what get_total_duration may return: 3723.5 s, 0.25 s, 25 h
Durations == {timedelta(3723, 500000), timedelta(0, 250000), timedelta(90000, 0)}

\* a fifth marker, as the table of a language may hold
Interlude == <<"i", "n", "t", "e", "r", "l", "u", "d", "e">>

\* the labels the detector gives: "Prologue", "Chapter 01", "Chapter" for an
\* epilogue (line 755 takes markers[2]) and "" for a marker past the fourth
Labels ==
    {ChapterType(EnglishMarkers, content, 1) :
        content \in {SaysPrologue, SaysChapter, SaysEpilogue}}
    \cup {ChapterType(EnglishMarkers \o <<Interlude>>, Interlude, 1)}

\* the starts of the entries after the first, as parse_timecodes stores them
LaterStarts == {<<"0", "0", ":", "1", "0", ":", "0", "0", ".", "0", "0", "0">>, <<"0", "0", ":", "2", "0", ":", "1", "0", ".", "0", "0", "0">>}

\* the list parse_timecodes returns for the given labels and later starts
DetectedList(labels, starts) ==
    LET timecodes == [k \in DOMAIN labels |->
                        [start |-> IF k = 1 THEN ZeroStart ELSE starts[k - 1],
                         chapter_type |-> labels[k]]]
    IN  FillEnds(timecodes, EndCalls(timecodes))

\* the detected lists of n entries, before and after apply_chapters has set
\* the last end
CueLists(n) ==
    UNION {{DetectedList(labels, starts),
            SetLastEnd(DetectedList(labels, starts), timedelta(3723, 500000))} :
           labels \in [1..n -> Labels], starts \in [1..(n - 1) -> LaterStarts]}

Stem == <<"b", "o", "o", "k">>

\* a file left at cue_path by an earlier run, and one with a START line
\* that holds no time
StaleFile == FileOf(<<HeaderLine(Stem), TrackLine(1),
                      TitleLine([chapter_type |-> <<"C", "h", "a", "p", "t", "e", "r", " ", "0", "1">>]),
                      StartLine([start |-> ZeroStart])>>)

BrokenFile == FileOf(<<HeaderLine(Stem), TrackLine(1),
                       TitleLine([chapter_type |-> <<"C", "h", "a", "p", "t", "e", "r", " ", "0", "1">>]),
                       <<" ", " ">> \o KwStart>>)

\* a file whose title holds the word END, and one whose START is followed
\* by a space
TitleEndFile == FileOf(<<HeaderLine(Stem), TrackLine(1),
                         TitleLine([chapter_type |-> <<"T", "H", "E", " ", "E", "N", "D">>]),
                         StartLine([start |-> ZeroStart])>>)

SpacedFile == FileOf(<<HeaderLine(Stem), TrackLine(1),
                       TitleLine([chapter_type |-> <<"C", "h", "a", "p", "t", "e", "r", " ", "0", "1">>]),
                       <<" ", " ">> \o KwStart \o <<" ">> \o ZeroStart>>)

\* the file write_cue_file makes of the list
CompleteSidecar(list) == <<HeaderLine(Stem)>> \o TrackLines(list, 1)

CueFiles == {NoFile, StaleFile, BrokenFile, TitleEndFile, SpacedFile}

-----------------------------------------------------------------------------
(* convert_time applied to one input                                       *)

InitConvert ==
    /\ pc = "convert"
    /\ \E h \in 0..MaxHours, w \in HourWidths, m \in 0..59, s \in 0..59,
          ms \in MillisTexts :
          time_in = TimeInput(h, w, m, s, ms)
    /\ conv_out = Idle
    /\ srt_content = <<>>
    /\ language_features = NoFeatures
    /\ total_duration = timedelta(0, 0)
    /\ parse_out = Idle
    /\ chapters_out = IdleChapters
    /\ cue_in = <<>>
    /\ cue_fs = NoFile
    /\ write_out = IdleWrite
    /\ read_out = IdleRead
    /\ cue_file = FALSE
    /\ timecodes_main = <<>>
    /\ run = <<>>
    /\ disk = NoFile
    /\ table_out = IdleTable
    /\ stamp_out = IdleStamp
    /\ text_out = <<>>

ConvertTime ==
    /\ pc = "convert"
    /\ conv_out' = convert_time(time_in)
    /\ pc' = IF conv_out'.outcome = "return" THEN "converted" ELSE "exited"
    /\ UNCHANGED <<time_in, srt_content, language_features, total_duration,
                   parse_out, chapters_out, cue_in, cue_fs, write_out, read_out>>
    /\ UNCHANGED run_vars
    /\ UNCHANGED codec_vars

NextConvert == ConvertTime

SpecConvert == InitConvert /\ [][NextConvert]_vars


-----------------------------------------------------------------------------
(* parse_timecodes on a transcript, then apply_chapters, as main runs them *)
(* when no cue file is given                                               *)

InitParse ==
    /\ pc = "parse"
    /\ \E input \in ParseInputs :
          /\ srt_content = input[1]
          /\ language_features = input[2]
    /\ time_in = <<>>
    /\ conv_out = Idle
    /\ total_duration = timedelta(0, 0)
    /\ parse_out = Idle
    /\ chapters_out = IdleChapters
    /\ cue_in = <<>>
    /\ cue_fs = NoFile
    /\ write_out = IdleWrite
    /\ read_out = IdleRead
    /\ cue_file = FALSE
    /\ timecodes_main = <<>>
    /\ run = <<>>
    /\ disk = NoFile
    /\ table_out = IdleTable
    /\ stamp_out = IdleStamp
    /\ text_out = <<>>

ParseTimecodes ==
    /\ pc = "parse"
    /\ parse_out' = parse_timecodes(srt_content, language_features)
    /\ pc' = IF parse_out'.outcome = "return" THEN "parsed" ELSE "exited"
    /\ UNCHANGED <<time_in, conv_out, srt_content, language_features,
                   total_duration, chapters_out, cue_in, cue_fs, write_out, read_out>>
    /\ UNCHANGED run_vars
    /\ UNCHANGED codec_vars

ApplyChapters ==
    /\ pc = "parsed"
    /\ \E td \in Durations, cover_art \in BOOLEAN :
          /\ total_duration' = td
          /\ chapters_out' = apply_chapters(parse_out.value, td, cover_art)
    /\ pc' = "applied"
    /\ UNCHANGED <<time_in, conv_out, srt_content, language_features, parse_out,
                   cue_in, cue_fs, write_out, read_out>>
    /\ UNCHANGED run_vars
    /\ UNCHANGED codec_vars

NextParse == ParseTimecodes \/ ApplyChapters

SpecParse == InitParse /\ [][NextParse]_vars

-----------------------------------------------------------------------------
(* write_cue_file on a list, read_cue_file on the file at cue_path         *)

InitCue ==
    /\ pc = "cue"
    /\ \E n \in 1..MaxTracks : cue_in \in CueLists(n)
    /\ cue_fs \in CueFiles
    /\ time_in = <<>>
    /\ conv_out = Idle
    /\ srt_content = <<>>
    /\ language_features = NoFeatures
    /\ total_duration = timedelta(0, 0)
    /\ parse_out = Idle
    /\ chapters_out = IdleChapters
    /\ write_out = IdleWrite
    /\ read_out = IdleRead
    /\ cue_file = FALSE
    /\ timecodes_main = <<>>
    /\ run = <<>>
    /\ disk = NoFile
    /\ table_out = IdleTable
    /\ stamp_out = IdleStamp
    /\ text_out = <<>>

WriteCueFile ==
    /\ pc = "cue"
    /\ \E os_error \in BOOLEAN :
          write_out' = write_cue_file(cue_in, Stem, cue_fs, os_error)
    /\ cue_fs' = write_out'.file
    /\ pc' = "written"
    /\ UNCHANGED <<time_in, conv_out, srt_content, language_features,
                   total_duration, parse_out, chapters_out, cue_in, read_out>>
    /\ UNCHANGED run_vars
    /\ UNCHANGED codec_vars

\* main reads the file at cue_path when it exists
ReadCueFile ==
    /\ pc \in {"cue", "written"}
    /\ cue_fs.exists
    /\ read_out' = read_cue_file(cue_fs.lines)
    /\ pc' = "read"
    /\ UNCHANGED <<time_in, conv_out, srt_content, language_features,
                   total_duration, parse_out, chapters_out, cue_in, cue_fs,
                   write_out>>
    /\ UNCHANGED run_vars
    /\ UNCHANGED codec_vars

NextCue == WriteCueFile \/ ReadCueFile

SpecCue == InitCue /\ [][NextCue]_vars

-----------------------------------------------------------------------------
(* Two runs of main on one recording, each at its cue-writing step: the    *)
(* steps of write_cue_file interleaved on one cue_path                     *)

Runs == {1, 2}

\* the file at cue_path, with the run whose open(cue_path, 'x') created it
NoDisk == [exists |-> FALSE, lines |-> <<>>, owner |-> 0]

\* a run before main's test of cue_file.exists()
RunStart(list) ==
    [pc |-> "check", list |-> list, buffer |-> <<>>, track |-> 0,
     flag |-> FALSE, io_error |-> FALSE]

\* the lists both runs detected in the recording
RaceLists ==
    UNION {{DetectedList(labels, starts) :
                labels \in [1..n -> {<<"C", "h", "a", "p", "t", "e", "r", " ", "0", "1">>, <<>>}],
                starts \in [1..(n - 1) -> {<<"0", "0", ":", "1", "0", ":", "0", "0", ".", "0", "0", "0">>}]} :
           n \in 1..MaxTracks}

InitRace ==
    /\ pc = "race"
    /\ \E list \in RaceLists : run = [r \in Runs |-> RunStart(list)]
    /\ disk = NoDisk
    /\ table_out = IdleTable
    /\ cue_file = TRUE
    /\ timecodes_main = <<>>
    /\ time_in = <<>>
    /\ conv_out = Idle
    /\ srt_content = <<>>
    /\ language_features = NoFeatures
    /\ total_duration = timedelta(0, 0)
    /\ parse_out = Idle
    /\ chapters_out = IdleChapters
    /\ cue_in = <<>>
    /\ cue_fs = NoFile
    /\ write_out = IdleWrite
    /\ read_out = IdleRead
    /\ stamp_out = IdleStamp
    /\ text_out = <<>>

\* main: if cue_file and not cue_file.exists()
CheckExists(r) ==
    /\ pc = "race"
    /\ run[r].pc = "check"
    /\ run' = [run EXCEPT ![r].pc = IF disk.exists THEN "skipped" ELSE "open"]
    /\ UNCHANGED <<disk, cue_file, timecodes_main, table_out, call_vars>>
    /\ UNCHANGED codec_vars

\* open(cue_path, 'x'): creates the file, or raises FileExistsError
OpenExclusive(r) ==
    /\ pc = "race"
    /\ run[r].pc = "open"
    /\ IF disk.exists
       THEN /\ run' = [run EXCEPT ![r].pc = "except"]
            /\ UNCHANGED disk
       ELSE /\ run' = [run EXCEPT ![r].pc = "header"]
            /\ disk' = [exists |-> TRUE, lines |-> <<>>, owner |-> r]
    /\ UNCHANGED <<cue_file, timecodes_main, table_out, call_vars>>
    /\ UNCHANGED codec_vars

\* fp.write of the FILE line, into the buffer of the file object
WriteHeader(r) ==
    /\ pc = "race"
    /\ run[r].pc = "header"
    /\ run' = [run EXCEPT ![r].pc = "tracks", ![r].track = 1,
                          ![r].buffer = <<HeaderLine(Stem)>>]
    /\ UNCHANGED <<disk, cue_file, timecodes_main, table_out, call_vars>>
    /\ UNCHANGED codec_vars

\* one pass of the for loop: the lines of track i, into the buffer
WriteTrack(r) ==
    /\ pc = "race"
    /\ run[r].pc = "tracks"
    /\ LET i == run[r].track
           list == run[r].list
       IN  IF i > Len(list)
           THEN run' = [run EXCEPT ![r].pc = "close"]
           ELSE run' = [run EXCEPT
                          ![r].track = i + 1,
                          ![r].buffer = @ \o <<TrackLine(i), TitleLine(list[i]),
                                               StartLine(list[i])>>
                                          \o (IF i # Len(list) THEN <<EndLine(list[i])>>
                                              ELSE <<>>)]
    /\ UNCHANGED <<disk, cue_file, timecodes_main, table_out, call_vars>>
    /\ UNCHANGED codec_vars

\* the characters the buffered lines put in the file, each line with its
\* '\n' (the lines of RaceLists are ASCII: one byte a character)
RECURSIVE FileText(_)
FileText(lines) ==
    IF Len(lines) = 0 THEN <<>>
    ELSE Head(lines) \o <<"\n">> \o FileText(Tail(lines))

\* the lines of a file that holds the given characters, the last one cut
\* short where the characters stop inside a line
LinesOf(text) ==
    IF Len(text) = 0 THEN <<>>
    ELSE LET parts == Split(text, "\n") IN
         IF Len(parts[Len(parts)]) = 0 THEN SubSeq(parts, 1, Len(parts) - 1)
         ELSE parts

\* leaving the with block: the buffer is flushed to the file the run
\* opened, which is the file at cue_path only while no one has unlinked it;
\* the flush may fail with OSError after any number of its bytes are
\* written
CloseFile(r) ==
    /\ pc = "race"
    /\ run[r].pc = "close"
    /\ LET linked == disk.exists /\ disk.owner = r IN
       \/ /\ run' = [run EXCEPT ![r].pc = "returned", ![r].flag = TRUE]
          /\ disk' = IF linked THEN [disk EXCEPT !.lines = run[r].buffer] ELSE disk
       \/ /\ run' = [run EXCEPT ![r].pc = "except", ![r].io_error = TRUE]
          /\ LET text == FileText(run[r].buffer) IN
             \E n \in 0..(Len(text) - 1) :
                disk' = IF linked
                        THEN [disk EXCEPT !.lines = LinesOf(SubSeq(text, 1, n))]
                        ELSE disk
    /\ UNCHANGED <<cue_file, timecodes_main, table_out, call_vars>>
    /\ UNCHANGED codec_vars

\* except OSError: if cue_path.exists()
HandlerExists(r) ==
    /\ pc = "race"
    /\ run[r].pc = "except"
    /\ run' = [run EXCEPT ![r].pc = IF disk.exists THEN "unlink" ELSE "returned"]
    /\ UNCHANGED <<disk, cue_file, timecodes_main, table_out, call_vars>>
    /\ UNCHANGED codec_vars

\* cue_path.unlink(), then return False; FileNotFoundError leaves the
\* handler when the file has gone since the test
Unlink(r) ==
    /\ pc = "race"
    /\ run[r].pc = "unlink"
    /\ IF disk.exists
       THEN /\ disk' = NoDisk
            /\ run' = [run EXCEPT ![r].pc = "returned"]
       ELSE /\ run' = [run EXCEPT ![r].pc = "FileNotFoundError"]
            /\ UNCHANGED disk
    /\ UNCHANGED <<cue_file, timecodes_main, table_out, call_vars>>
    /\ UNCHANGED codec_vars

NextRace ==
    \E r \in Runs :
        \/ CheckExists(r)
        \/ OpenExclusive(r)
        \/ WriteHeader(r)
        \/ WriteTrack(r)
        \/ CloseFile(r)
        \/ HandlerExists(r)
        \/ Unlink(r)

SpecRace == InitRace /\ [][NextRace]_vars

-----------------------------------------------------------------------------
(* main from its cue-file test on: read_cue_file, parse_timecodes,         *)
(* print_table, write_cue_file, apply_chapters                             *)

\* main's timecodes: None, or a list
NoneList == [is_none |-> TRUE, value |-> <<>>]

ListOf(value) == [is_none |-> FALSE, value |-> value]

\* not timecodes
Falsy(timecodes) == timecodes.is_none \/ Len(timecodes.value) = 0

\* the sidecar of a two-entry list as a user may have left it: as written,
\* with the END line of the first track removed, with an END line added to
\* the last track, and cut down to its header
EditedList ==
    DetectedList(<<<<"P", "r", "o", "l", "o", "g", "u", "e">>, <<"C", "h", "a", "p", "t", "e", "r", " ", "0", "1">>>>, <<<<"0", "0", ":", "1", "0", ":", "0", "0", ".", "0", "0", "0">>>>)

EditedFile == FileOf(CompleteSidecar(EditedList))

NoEndFile ==
    FileOf(SubSeq(CompleteSidecar(EditedList), 1, 4)
           \o SubSeq(CompleteSidecar(EditedList), 6, 8))

LastEndFile ==
    FileOf(CompleteSidecar(EditedList)
           \o <<EndLine([end |-> <<"0", "0", ":", "3", "0", ":", "0", "0", ".", "0", "0", "0">>])>>)

HeaderOnlyFile == FileOf(<<HeaderLine(Stem)>>)

\* the sidecar with the START line of its last track replaced by an END
\* line, and with an END line in the place of the last track's TITLE line
LastNoStartFile ==
    FileOf(SubSeq(CompleteSidecar(EditedList), 1, 7)
           \o <<EndLine([end |-> <<"0", "0", ":", "3", "0", ":", "0", "0", ".", "0", "0", "0">>])>>)

LastNoTitleFile ==
    FileOf(SubSeq(CompleteSidecar(EditedList), 1, 6)
           \o SubSeq(CompleteSidecar(EditedList), 8, 8)
           \o <<EndLine([end |-> <<"0", "0", ":", "3", "0", ":", "0", "0", ".", "0", "0", "0">>])>>)

MainCueFiles ==
    {NoFile, HeaderOnlyFile, EditedFile, NoEndFile, LastEndFile, TitleEndFile,
     LastNoStartFile, LastNoTitleFile}

\* a dict keeps its keys in the order they were inserted: parse_timecodes
\* inserts start, chapter_type and then end; read_cue_file inserts a key at
\* each line it matches, and the tracks of MainCueFiles hold their TITLE,
\* START and END lines in that order
ParsedKeys == <<"start", "chapter_type", "end">>

ReadKeys == <<"chapter_type", "start", "end">>

\* list(item.values()) of a dict whose keys were inserted in the order keys
DictValues(item, keys) ==
    LET present == SelectSeq(keys, LAMBDA k : k \in DOMAIN item) IN
      [i \in DOMAIN present |-> item[present[i]]]

EOF == <<"E", "O", "F">>

\* lines 347-355: one row for each dict, 'EOF' appended to the last row
\* unless it has three values
MergeRows(list_dicts, keys) ==
    [i \in DOMAIN list_dicts |->
        LET row == DictValues(list_dicts[i], keys) IN
          IF i = Len(list_dicts) /\ Len(row) # 3 THEN Append(row, EOF) ELSE row]

\* line 357: the cells of the Start, End and Chapter columns
TableRow(row) ==
    << <<"[", "g", "r", "e", "e", "n", "]">> \o row[1],
       <<"[", "r", "e", "d", "]">> \o row[3],
       <<"[", "b", "r", "i", "g", "h", "t", "_", "b", "l", "u", "e", "]">> \o row[2] >>

\* print_table: merge_rows[-1] of an empty list and row[2] of a row with
\* fewer than three values raise IndexError before the table is printed;
\* rows is the table that con.print shows
print_table(list_dicts, keys) ==
    IF Len(list_dicts) = 0
    THEN [outcome |-> "IndexError", rows |-> <<>>]
    ELSE LET merge_rows == MergeRows(list_dicts, keys) IN
         IF \E i \in DOMAIN merge_rows : Len(merge_rows[i]) < 3
         THEN [outcome |-> "IndexError", rows |-> <<>>]
         ELSE [outcome |-> "return",
               rows |-> [i \in DOMAIN merge_rows |-> TableRow(merge_rows[i])]]

\* the transcript of the recording and the features of its language
MainInputs ==
    (PairTranscripts(1) \X {EnglishLower}) \cup {<<ExampleTranscript, EnglishTitle>>}

InitMain ==
    /\ pc = "main"
    /\ cue_file \in BOOLEAN
    /\ cue_fs \in (IF cue_file THEN MainCueFiles ELSE {NoFile})
    /\ \E input \in MainInputs :
          /\ srt_content = input[1]
          /\ language_features = input[2]
    /\ timecodes_main = NoneList
    /\ time_in = <<>>
    /\ conv_out = Idle
    /\ total_duration = timedelta(0, 0)
    /\ parse_out = Idle
    /\ chapters_out = IdleChapters
    /\ cue_in = <<>>
    /\ write_out = IdleWrite
    /\ read_out = IdleRead
    /\ run = <<>>
    /\ disk = NoFile
    /\ table_out = IdleTable
    /\ stamp_out = IdleStamp
    /\ text_out = <<>>

\* lines 930-937: if cue_file and cue_file.exists(): timecodes :=
\* read_cue_file(cue_file); else: timecodes = None
MainReadCue ==
    /\ pc = "main"
    /\ IF cue_file /\ cue_fs.exists
       THEN /\ read_out' = read_cue_file(cue_fs.lines)
            /\ timecodes_main' = IF read_out'.outcome = "return" /\ ~read_out'.is_none
                                 THEN ListOf(read_out'.value) ELSE NoneList
            /\ pc' = IF read_out'.outcome = "return" THEN "loaded" ELSE "raised"
       ELSE /\ timecodes_main' = NoneList
            /\ pc' = "loaded"
            /\ UNCHANGED read_out
    /\ UNCHANGED <<time_in, conv_out, srt_content, language_features, total_duration,
                   parse_out, chapters_out, cue_in, cue_fs, write_out, cue_file,
                   run, disk, table_out>>
    /\ UNCHANGED codec_vars

\* main ending the run when the sidecar gave no list
MainParseUnlessSidecarFailed ==
    /\ pc = "loaded"
    /\ IF Falsy(timecodes_main) /\ read_out = IdleRead
       THEN /\ parse_out' = parse_timecodes(srt_content, language_features)
            /\ timecodes_main' = IF parse_out'.outcome = "return"
                                 THEN ListOf(parse_out'.value) ELSE timecodes_main
            /\ pc' = IF parse_out'.outcome = "return" THEN "listed" ELSE "exited"
       ELSE /\ pc' = IF Falsy(timecodes_main) THEN "exited" ELSE "listed"
            /\ UNCHANGED <<parse_out, timecodes_main>>
    /\ UNCHANGED <<time_in, conv_out, srt_content, language_features, total_duration,
                   chapters_out, cue_in, cue_fs, write_out, read_out, cue_file,
                   run, disk, table_out>>
    /\ UNCHANGED codec_vars

\* lines 940-948: if not timecodes: timecodes = parse_timecodes(...)
MainParse ==
    /\ pc = "loaded"
    /\ IF Falsy(timecodes_main)
       THEN /\ parse_out' = parse_timecodes(srt_content, language_features)
            /\ timecodes_main' = IF parse_out'.outcome = "return"
                                 THEN ListOf(parse_out'.value) ELSE timecodes_main
            /\ pc' = IF parse_out'.outcome = "return" THEN "listed" ELSE "exited"
       ELSE /\ pc' = "listed"
            /\ UNCHANGED <<parse_out, timecodes_main>>
    /\ UNCHANGED <<time_in, conv_out, srt_content, language_features, total_duration,
                   chapters_out, cue_in, cue_fs, write_out, read_out, cue_file,
                   run, disk, table_out>>
    /\ UNCHANGED codec_vars

\* line 952: print_table(timecodes); the list is the one parse_timecodes
\* built when it was called, and the one read_cue_file built otherwise
MainPrintTable ==
    /\ pc = "listed"
    /\ table_out' = print_table(timecodes_main.value,
                                IF parse_out = Idle THEN ReadKeys ELSE ParsedKeys)
    /\ pc' = IF table_out'.outcome = "return" THEN "tabled" ELSE "raised"
    /\ UNCHANGED <<time_in, conv_out, srt_content, language_features, total_duration,
                   parse_out, chapters_out, cue_in, cue_fs, write_out, read_out,
                   cue_file, timecodes_main, run, disk>>
    /\ UNCHANGED codec_vars

\* main writing the sidecar whenever a path is configured
MainWriteCueAlways ==
    /\ pc = "tabled"
    /\ IF cue_file
       THEN /\ \E os_error \in BOOLEAN :
                  write_out' = write_cue_file(timecodes_main.value, Stem, cue_fs, os_error)
            /\ cue_fs' = write_out'.file
            /\ pc' = IF write_out'.outcome = "return" THEN "chaptering" ELSE "raised"
       ELSE /\ pc' = "chaptering"
            /\ UNCHANGED <<write_out, cue_fs>>
    /\ UNCHANGED <<time_in, conv_out, srt_content, language_features, total_duration,
                   parse_out, chapters_out, cue_in, read_out, cue_file,
                   timecodes_main, run, disk, table_out>>
    /\ UNCHANGED codec_vars

\* lines 958-966: if cue_file and not cue_file.exists(): write_cue_file(...);
\* the flag decides only whether the success line is printed
MainWriteCue ==
    /\ pc = "tabled"
    /\ IF cue_file /\ ~cue_fs.exists
       THEN /\ \E os_error \in BOOLEAN :
                  write_out' = write_cue_file(timecodes_main.value, Stem, cue_fs, os_error)
            /\ cue_fs' = write_out'.file
            /\ pc' = IF write_out'.outcome = "return" THEN "chaptering" ELSE "raised"
       ELSE /\ pc' = "chaptering"
            /\ UNCHANGED <<write_out, cue_fs>>
    /\ UNCHANGED <<time_in, conv_out, srt_content, language_features, total_duration,
                   parse_out, chapters_out, cue_in, read_out, cue_file,
                   timecodes_main, run, disk, table_out>>
    /\ UNCHANGED codec_vars

\* line 972: apply_chapters(audiobook_file, timecodes, ...), which changes
\* the list it is handed
MainApplyChapters ==
    /\ pc = "chaptering"
    /\ \E td \in Durations, cover_art \in BOOLEAN :
          /\ total_duration' = td
          /\ chapters_out' = apply_chapters(timecodes_main.value, td, cover_art)
    /\ timecodes_main' = ListOf(chapters_out'.timecodes)
    /\ pc' = IF chapters_out'.outcome = "return" THEN "done" ELSE "raised"
    /\ UNCHANGED <<time_in, conv_out, srt_content, language_features, parse_out,
                   cue_in, cue_fs, write_out, read_out, cue_file, run, disk, table_out>>
    /\ UNCHANGED codec_vars

NextMain ==
    MainReadCue \/ MainParse \/ MainPrintTable \/ MainWriteCue \/ MainApplyChapters

SpecMain == InitMain /\ [][NextMain]_vars

-----------------------------------------------------------------------------
(* parse_timestamp on a text, format_timestamp_from_float on the total     *)
(* seconds of the duration it returned                                     *)

\* hours in two digits
TwoDigitHours == 0..99

CodecMinutes == {0, 7, 59}

CodecSeconds == {0, 30, 59}

CodecMillis == {<<"0", "0", "0">>, <<"0", "0", "1">>, <<"5", "0", "0">>,
                <<"9", "9", "9">>}

InitCodec ==
    /\ pc = "codec"
    /\ \E h \in TwoDigitHours, m \in CodecMinutes, s \in CodecSeconds,
          ms \in CodecMillis :
          time_in = TimeInput(h, 2, m, s, ms)
    /\ stamp_out = IdleStamp
    /\ text_out = <<>>
    /\ conv_out = Idle
    /\ srt_content = <<>>
    /\ language_features = NoFeatures
    /\ total_duration = timedelta(0, 0)
    /\ parse_out = Idle
    /\ chapters_out = IdleChapters
    /\ cue_in = <<>>
    /\ cue_fs = NoFile
    /\ write_out = IdleWrite
    /\ read_out = IdleRead
    /\ cue_file = FALSE
    /\ timecodes_main = <<>>
    /\ run = <<>>
    /\ disk = NoFile
    /\ table_out = IdleTable

ParseTimestamp ==
    /\ pc = "codec"
    /\ stamp_out' = parse_timestamp(time_in)
    /\ pc' = IF stamp_out'.outcome = "return" THEN "decoded" ELSE "raised"
    /\ UNCHANGED <<text_out, call_vars_but_pc, run_vars>>

\* format_timestamp_from_float(parse_timestamp(T).total_seconds())
FormatTimestamp ==
    /\ pc = "decoded"
    /\ text_out' = format_timestamp_from_float(stamp_out.value)
    /\ pc' = "encoded"
    /\ UNCHANGED <<stamp_out, call_vars_but_pc, run_vars>>

NextCodec == ParseTimestamp \/ FormatTimestamp

SpecCodec == InitCodec /\ [][NextCodec]_vars

-----------------------------------------------------------------------------
(* convert_time applied to a text that is not digits:digits:digits[.digits] *)

\* the text is digits:digits:digits or digits:digits:digits.digits
DigitsShape(text) ==
    LET parts == Split(text, ":") IN
      /\ Len(parts) = 3
      /\ \A k \in 1..2 : Len(parts[k]) > 0 /\ AllDigits(parts[k])
      /\ LET tail == Split(parts[3], ".") IN
           /\ Len(tail) \in {1, 2}
           /\ \A k \in DOMAIN tail : Len(tail[k]) > 0 /\ AllDigits(tail[k])

HoursTexts == {<<"a", "b">>, <<"1", "x">>, <<>>, <<"0", "0">>, <<"0", "1">>}

MinutesTexts == {<<" ", "1">>, <<"c", "d">>, <<"5", "y">>, <<"0", "0">>, <<"1", "0">>}

SecondsTexts == {<<" ", "5">>, <<"1", "_", "0">>, <<"0", "5">>, <<"0", "0">>, <<"1", "0">>, <<"x", "x">>, <<"0", "x">>, <<"1", "x">>}

TailTexts == {<<".", "0", "0", "0">>, <<>>, <<".", "x">>, <<".", "5", ".", "5">>}

\* three fields, or the hours left out, or a fourth field
FieldTexts ==
    {<<h, m, s \o f>> : h \in HoursTexts, m \in MinutesTexts,
                        s \in SecondsTexts, f \in TailTexts}
    \cup {<<m, s \o f>> : m \in MinutesTexts, s \in SecondsTexts, f \in TailTexts}
    \cup {<<s \o f>> : s \in SecondsTexts, f \in TailTexts}
    \cup {<<h, h, m, s \o f>> : h \in HoursTexts, m \in MinutesTexts,
                                s \in SecondsTexts, f \in {<<".", "0", "0", "0">>}}

InitMalformed ==
    /\ pc = "convert"
    /\ \E fields \in FieldTexts :
          /\ time_in = Join(fields, <<":">>)
          /\ ~DigitsShape(time_in)
    /\ conv_out = Idle
    /\ srt_content = <<>>
    /\ language_features = NoFeatures
    /\ total_duration = timedelta(0, 0)
    /\ parse_out = Idle
    /\ chapters_out = IdleChapters
    /\ cue_in = <<>>
    /\ cue_fs = NoFile
    /\ write_out = IdleWrite
    /\ read_out = IdleRead
    /\ cue_file = FALSE
    /\ timecodes_main = <<>>
    /\ run = <<>>
    /\ disk = NoFile
    /\ table_out = IdleTable
    /\ stamp_out = IdleStamp
    /\ text_out = <<>>

NextMalformed == ConvertTime

SpecMalformed == InitMalformed /\ [][NextMalformed]_vars

-----------------------------------------------------------------------------
(* Every operation from every input                                        *)

Init == InitConvert \/ InitParse \/ InitCue \/ InitRace \/ InitMain \/ InitCodec \/ InitMalformed

Next ==
    NextConvert \/ NextParse \/ NextCue \/ NextRace \/ NextMain \/ NextCodec
    \/ NextMalformed

Spec == Init /\ [][Next]_vars

\* the 1-based positions i, in order, whose pair (line i, content i + 1)
\* the detector accepts: a marker and no excluded phrase in the content, a
\* readable start on the line
RECURSIVE AcceptedFrom(_, _, _)
AcceptedFrom(srt, features, i) ==
    IF i >= Len(srt) THEN <<>>
    ELSE (IF /\ AnyIn(features.markers, srt[i + 1])
             /\ ~AnyIn(features.excluded_phrases, srt[i + 1])
             /\ StartFound(srt[i])
          THEN <<i>> ELSE <<>>)
         \o AcceptedFrom(srt, features, i + 1)

Positions == AcceptedFrom(srt_content, language_features, 1)

ParseReturned == pc \in {"parsed", "applied"}

\* the content line that made entry k
ContentOf(positions, k) == srt_content[positions[k] + 1]

\* the content is classified by the chapter marker: no prologue marker in
\* it, the chapter marker in it
NamesChapter(content) ==
    /\ ~Contains(content, language_features.markers[1])
    /\ ~Contains(content, language_features.markers[2])
    /\ Contains(content, language_features.markers[3])

\* C5 as claimed: the label of every boundary follows the priority order
\* Prologue (marker[0] or marker[1]), Chapter NN (marker[2]), Epilogue
\* (marker[3]), empty (the code labels an epilogue line markers[2].title(),
\* "Chapter").
ClassificationByPriority ==
    ParseReturned =>
        LET positions == Positions
            markers   == language_features.markers
        IN  /\ Len(parse_out.value) = Len(positions)
            /\ \A k \in DOMAIN positions :
                 LET content == ContentOf(positions, k)
                     label   == parse_out.value[k].chapter_type
                 IN  IF Contains(content, markers[1]) \/ Contains(content, markers[2])
                     THEN label = <<"P", "r", "o", "l", "o", "g", "u", "e">>
                     ELSE IF Contains(content, markers[3])
                     THEN /\ Len(label) > 8
                          /\ SubSeq(label, 1, 8) = <<"C", "h", "a", "p", "t", "e", "r", " ">>
                          /\ AllDigits(SubSeq(label, 9, Len(label)))
                     ELSE IF Contains(content, markers[4])
                     THEN label = <<"E", "p", "i", "l", "o", "g", "u", "e">>
                     ELSE label = <<>>

\* C6: in a returned list the k-th entry classified by the chapter marker
\* is labelled with the title-cased chapter marker, a space and k, k in two
\* digits when below 10 and unpadded from 10 on, whatever other entries and
\* skipped pairs lie between.
ChapterNumbering ==
    ParseReturned =>
        LET positions == Positions
            chapters  == {k \in DOMAIN positions : NamesChapter(ContentOf(positions, k))}
        IN  /\ Len(parse_out.value) = Len(positions)
            /\ \A k \in chapters :
                 parse_out.value[k].chapter_type
                    = Title(language_features.markers[3]) \o <<" ">>
                      \o Format0(Cardinality({j \in chapters : j <= k}), 2)

\* C6 witness: a tenth chapter has been numbered after a prologue entry
\* earlier in the list
ChapterNumberingWitness ==
    /\ pc = "parsed"
    /\ \E k \in DOMAIN parse_out.value :
         /\ parse_out.value[k].chapter_type = <<"C", "h", "a", "p", "t", "e", "r", " ", "1", "0">>
         /\ \E j \in 1..(k - 1) : parse_out.value[j].chapter_type = <<"P", "r", "o", "l", "o", "g", "u", "e">>

\* C7: the first entry of a returned list starts at the zero duration (the
\* text 00:00:00) whatever start its timestamp line carried, and every later
\* entry's start is the start field of its own timestamp line.
FirstStartZero ==
    ParseReturned =>
        LET positions == Positions IN
          /\ Len(parse_out.value) = Len(positions)
          /\ parse_out.value[1].start = <<"0", "0", ":", "0", "0", ":", "0", "0">>
          /\ parse_timestamp(parse_out.value[1].start).outcome = "return"
          /\ parse_timestamp(parse_out.value[1].start).value = timedelta(0, 0)
          /\ \A k \in 2..Len(positions) :
               parse_out.value[k].start = StartField(srt_content[positions[k]])

\* C7 witness: a list of two entries or more whose first timestamp line
\* carried a start other than zero
FirstStartZeroWitness ==
    /\ pc = "parsed"
    /\ Len(parse_out.value) >= 2
    /\ StartField(srt_content[Positions[1]]) = <<"0", "0", ":", "0", "5", ":", "1", "0", ".", "5", "0", "0">>

\* the example's two boundaries, with the second start as text
ExampleBoundaries(second_start) ==
    /\ parse_out.outcome = "return"
    /\ Len(parse_out.value) = 2
    /\ parse_out.value[1].start = <<"0", "0", ":", "0", "0", ":", "0", "0">>
    /\ parse_out.value[1].chapter_type = <<"C", "h", "a", "p", "t", "e", "r", " ", "0", "1">>
    /\ parse_out.value[2].start = second_start
    /\ parse_out.value[2].chapter_type = <<"C", "h", "a", "p", "t", "e", "r", " ", "0", "2">>

\* the pairs whose content holds the chapter marker and no excluded phrase
\* and whose line carries a readable start
NamedChapters ==
    {i \in 1..(Len(srt_content) - 1) :
        /\ Contains(srt_content[i + 1], language_features.markers[3])
        /\ ~AnyIn(language_features.excluded_phrases, srt_content[i + 1])
        /\ StartFound(srt_content[i])}

\* C8 as claimed: on the example's lines with the markers prologue, preface,
\* chapter, epilogue and an empty exclusion set the detector returns
\* {00:00:00, Chapter 01} and {00:10:00,000, Chapter 02} (the code ends the
\* run with status 13 when the exclusion set is empty).
DetectorExampleAsClaimed ==
    (pc # "parse" /\ srt_content = ExampleTranscript /\ language_features = NoExclusions)
        => ExampleBoundaries(<<"0", "0", ":", "1", "0", ":", "0", "0", ",", "0", "0", "0">>)

\* C8 amended: on the example's lines with the markers Prologue, Preface,
\* Chapter, Epilogue and a non-empty exclusion set of which no phrase occurs
\* the detector returns {00:00:00, Chapter 01} and {00:10:00.000, Chapter
\* 02}; with the lower-case markers no line of the example matches and the
\* run ends with status 8; with a non-empty exclusion set every pair whose
\* content holds the chapter marker and no excluded phrase, after a line
\* with a readable start, becomes a boundary of a returned list; with an
\* empty exclusion set the run ends with status 13.
DetectorExample ==
    pc # "parse" =>
        /\ (srt_content = ExampleTranscript /\ language_features = EnglishTitle)
              => ExampleBoundaries(<<"0", "0", ":", "1", "0", ":", "0", "0", ".", "0", "0", "0">>)
        /\ (srt_content = ExampleTranscript /\ language_features = EnglishLower)
              => parse_out = Exited(8)
        /\ Len(language_features.excluded_phrases) = 0 => parse_out = Exited(13)
        /\ (Len(language_features.excluded_phrases) > 0 /\ NamedChapters # {})
              => /\ parse_out.outcome = "return"
                 /\ Len(parse_out.value) >= Cardinality(NamedChapters)

\* C8 witness: the example has been scanned with markers that match it
DetectorExampleWitness ==
    /\ pc = "parsed"
    /\ srt_content = ExampleTranscript
    /\ language_features = EnglishTitle
    /\ Len(parse_out.value) = 2

\* C9: parse_timecodes never returns an empty list, and with a configured
\* marker table a transcript without an accepted pair ends the run with
\* status 8.
NoChaptersIsFatal ==
    /\ parse_out.outcome = "return" => Len(parse_out.value) > 0
    /\ (/\ pc # "parse"
        /\ Len(language_features.excluded_phrases) > 0
        /\ Len(language_features.markers) > 0
        /\ Len(Positions) = 0)
          => parse_out = Exited(8)

\* C9 witness: a run has ended with status 8 on a transcript that holds a
\* marker line with an excluded phrase and a candidate without a readable
\* start
NoChaptersIsFatalWitness ==
    /\ pc = "exited"
    /\ parse_out = Exited(8)
    /\ \E i, j \in 1..(Len(srt_content) - 1) :
         /\ srt_content[i + 1] = SaysExcluded
         /\ srt_content[j + 1] = SaysChapter
         /\ ~StartFound(srt_content[j])

\* the duration as HH:MM:SS.mmm, the hours counting the whole days in
DurationText(td) ==
    LET whole == td.days * 86400 + td.seconds IN
      Format0(whole \div 3600, 2) \o <<":">> \o Format0((whole % 3600) \div 60, 2)
      \o <<":">> \o Format0(whole % 60, 2) \o <<".">>
      \o Format0(td.microseconds \div 1000, 3)

\* C10 as claimed: after parse_timecodes and apply_chapters every entry but
\* the last ends at convert_time of the next entry's start, and the last
\* ends at the total duration as HH:MM:SS.mmm, "01:02:03.500" for 3723.5 s
\* (the code renders a duration of 24 hours or more without its whole days:
\* "01:00:00.000" for 25 hours).
FinalizationAsClaimed ==
    pc = "applied" =>
        LET final == chapters_out.timecodes IN
          /\ \A i \in 1..(Len(final) - 1) :
               /\ convert_time(final[i + 1].start).outcome = "return"
               /\ final[i].end = convert_time(final[i + 1].start).value
          /\ final[Len(final)].end = DurationText(total_duration)
          /\ total_duration = timedelta(3723, 500000)
                => final[Len(final)].end = <<"0", "1", ":", "0", "2", ":", "0", "3", ".", "5", "0", "0">>

\* a is an earlier point of the recording than b
Earlier(a, b) ==
    \/ a.days < b.days
    \/ a.days = b.days /\ a.seconds < b.seconds
    \/ a.days = b.days /\ a.seconds = b.seconds /\ a.microseconds < b.microseconds

\* the starts of the list are strictly increasing durations
IncreasingStarts(timecodes) ==
    \A k \in 1..(Len(timecodes) - 1) :
        /\ parse_timestamp(timecodes[k].start).outcome = "return"
        /\ parse_timestamp(timecodes[k + 1].start).outcome = "return"
        /\ Earlier(parse_timestamp(timecodes[k].start).value,
                   parse_timestamp(timecodes[k + 1].start).value)

\* read_cue_file has read the file that write_cue_file made of cue_in
ReadBack == pc = "read" /\ write_out.outcome = "return" /\ write_out.flag

\* C1: when write_cue_file has written a finalized list (one entry or more,
\* labels Prologue, Chapter NN, Epilogue or empty, starts strictly
\* increasing) and read_cue_file reads that file, it returns a list of the
\* same length and order with every label and start as written and every
\* end but the last as written.
SidecarRoundTrip ==
    (ReadBack /\ IncreasingStarts(cue_in)) =>
        /\ read_out.outcome = "return"
        /\ ~read_out.is_none
        /\ Len(read_out.value) = Len(cue_in)
        /\ \A k \in DOMAIN cue_in :
             /\ {"chapter_type", "start"} \subseteq DOMAIN read_out.value[k]
             /\ read_out.value[k].chapter_type = cue_in[k].chapter_type
             /\ read_out.value[k].start = cue_in[k].start
             /\ k < Len(cue_in) =>
                  /\ "end" \in DOMAIN read_out.value[k]
                  /\ read_out.value[k].end = cue_in[k].end

\* C1 witness: a list of three entries with an empty label and the label of
\* an epilogue has been written and read back
SidecarRoundTripWitness ==
    /\ ReadBack
    /\ IncreasingStarts(cue_in)
    /\ Len(cue_in) = 3
    /\ cue_in[2].chapter_type = <<>>
    /\ cue_in[3].chapter_type = ChapterType(EnglishMarkers, SaysEpilogue, 1)
    /\ Len(read_out.value) = 3

\* the fields of the input and of the returned text
InParts == Split(time_in, ":")

InTail == Split(InParts[Len(InParts)], ".")

OutParts == Split(conv_out.value, ":")

OutTail == Split(OutParts[Len(OutParts)], ".")

InAllZero == DigitsVal(InParts[1]) = 0 /\ DigitsVal(InParts[2]) = 0 /\ DigitsVal(InTail[1]) = 0

\* H, M, S one second earlier, by the three cases
OneSecondLess(h, m, s) ==
    IF s > 0 THEN <<h, m, s - 1>>
    ELSE IF m > 0 THEN <<h, m - 1, 59>>
    ELSE <<h - 1, 59, 59>>

\* C2: for a well-formed input that is not 0:0:0, convert_time returns a
\* text of three ':'-separated digit fields and a '.'-suffix whose H, M, S
\* values are the input's one second earlier (S>0: S-1; S=0, M>0: M-1 and
\* 59; S=0, M=0, H>0: H-1, 59, 59) and whose suffix is the input's;
\* "01:00:00.000" gives "00:59:59.000" and "02:03:00.000" gives
\* "02:02:59.000".
DecrementerValue ==
    (pc # "convert" /\ ~InAllZero) =>
        /\ conv_out.outcome = "return"
        /\ Len(OutParts) = 3 /\ Len(OutTail) = 2
        /\ AllDigits(OutParts[1]) /\ AllDigits(OutParts[2]) /\ AllDigits(OutTail[1])
        /\ <<DigitsVal(OutParts[1]), DigitsVal(OutParts[2]), DigitsVal(OutTail[1])>>
             = OneSecondLess(DigitsVal(InParts[1]), DigitsVal(InParts[2]),
                             DigitsVal(InTail[1]))
        /\ OutTail[2] = InTail[2]
        /\ (time_in = <<"0", "1", ":", "0", "0", ":", "0", "0", ".", "0", "0", "0">> => conv_out.value = <<"0", "0", ":", "5", "9", ":", "5", "9", ".", "0", "0", "0">>)
        /\ (time_in = <<"0", "2", ":", "0", "3", ":", "0", "0", ".", "0", "0", "0">> => conv_out.value = <<"0", "2", ":", "0", "2", ":", "5", "9", ".", "0", "0", "0">>)

\* C2 witness: the borrow from the hours has been computed
DecrementerValueWitness ==
    /\ pc = "converted"
    /\ time_in = <<"0", "1", ":", "0", "0", ":", "0", "0", ".", "0", "0", "0">>
    /\ conv_out.value = <<"0", "0", ":", "5", "9", ":", "5", "9", ".", "0", "0", "0">>

\* C3 as claimed: every field of the returned text has as many digits as
\* the input's field (the code drops the leading zero when a field goes
\* from 10 to 9, e.g. "00:05:10.000" gives "00:05:9.000").
DecrementerWidth ==
    (pc = "converted" /\ ~InAllZero) =>
        /\ Len(OutParts) = 3 /\ Len(OutTail) = 2
        /\ Len(OutParts[1]) = Len(InParts[1])
        /\ Len(OutParts[2]) = Len(InParts[2])
        /\ Len(OutTail[1]) = Len(InTail[1])

\* C4 as claimed: an input whose hours, minutes and seconds are all zero
\* ends in an error outcome and no text is returned (the code returns
\* "0-1:59:59.mmm").
DecrementerUnderflow ==
    (pc # "convert" /\ InAllZero) => conv_out.outcome = "exit"

-----------------------------------------------------------------------------
(* Properties of write_cue_file and read_cue_file on files already there   *)

\* C11 as claimed: a call of write_cue_file on a path where a file exists
\* returns False and leaves that file as it was (the except clause unlinks
\* cue_path whenever it exists, also when open(cue_path, 'x') failed because
\* the file was there).
ExistingSidecarUntouched ==
    [][(pc = "cue" /\ pc' = "written" /\ cue_fs.exists)
          => (write_out'.outcome = "return" /\ ~write_out'.flag /\ cue_fs' = cue_fs)]_vars

\* both runs saw no file at cue_path, called write_cue_file and returned,
\* and no write failed
BothWrote ==
    /\ pc = "race"
    /\ \A r \in Runs : run[r].pc = "returned" /\ ~run[r].io_error

\* C12 as claimed: when two runs have both seen no sidecar and both called
\* write_cue_file on the path, then once both calls have returned the path
\* holds one complete sidecar, written by the one run whose call returned
\* True (the run whose open fails unlinks the file the other run created).
RaceKeepsOneSidecar ==
    BothWrote =>
        /\ disk.exists
        /\ disk.lines = CompleteSidecar(run[disk.owner].list)
        /\ run[disk.owner].flag
        /\ \A r \in Runs \ {disk.owner} : ~run[r].flag

\* a line after the header holds a field keyword and not the field's shape
MalformedField(lines) ==
    \E i \in 2..Len(lines) :
        \/ Contains(lines[i], KwTitle) /\ ~TitleFound(lines[i])
        \/ Contains(lines[i], KwStart) /\ ~StartFieldFound(lines[i])
        \/ Contains(lines[i], KwEnd) /\ ~EndFound(lines[i])

\* C13 as claimed: read_cue_file on a file with a malformed field line
\* returns None; it does not leave through an exception (re.search(...)[1]
\* on a line that does not match raises TypeError, which the except clause
\* for ValueError and IndexError does not catch).
MalformedFieldRejected ==
    (pc = "read" /\ MalformedField(cue_fs.lines))
        => (read_out.outcome = "return" /\ read_out.is_none)

-----------------------------------------------------------------------------
(* Properties of a run of main                                             *)

\* read_cue_file was called and returned None; it raised; write_cue_file
\* was called and returned False
ReadNone == read_out.outcome = "return" /\ read_out.is_none

ReadRaised == read_out.outcome \notin {"idle", "return"}

WriteFailed == write_out.outcome = "return" /\ ~write_out.flag

\* apply_chapters has been called
Applied == chapters_out # IdleChapters

\* C14 as claimed: once read_cue_file has failed or write_cue_file has
\* returned failure, the run never reaches apply_chapters and does not turn
\* to parse_timecodes for its boundaries (main parses the transcript when
\* read_cue_file returns None and ignores the flag of write_cue_file).
SidecarErrorsFatal ==
    /\ (ReadNone \/ ReadRaised \/ WriteFailed) => (~Applied /\ pc # "chaptering")
    /\ (ReadNone \/ ReadRaised) => parse_out = Idle

\* C14 amended: when read_cue_file returns None main parses the transcript
\* and goes on to apply_chapters with the detected list unless
\* parse_timecodes ends the run; when write_cue_file returns False main goes
\* on to apply_chapters with the list it holds; of these failures only a
\* read_cue_file that raises ends the run, before parse_timecodes and
\* apply_chapters (print_table returns on every list parse_timecodes built).
SidecarErrorsRecovered ==
    /\ (ReadNone /\ pc # "loaded") =>
          /\ parse_out # Idle
          /\ pc = "exited" <=> parse_out.outcome = "exit"
          /\ pc \in {"listed", "tabled", "chaptering"} =>
                timecodes_main = ListOf(parse_out.value)
          /\ pc \in {"done", "raised"} => Applied
    /\ ReadRaised => (pc = "raised" /\ parse_out = Idle /\ ~Applied)
    /\ WriteFailed =>
          /\ pc \in {"chaptering", "done", "raised"}
          /\ pc = "chaptering" => timecodes_main = ListOf(parse_out.value)
          /\ pc \in {"done", "raised"} => Applied

\* C14 witness: a run whose sidecar held no record has parsed the
\* transcript and written its chapter blocks
SidecarErrorsRecoveredWitness ==
    /\ pc = "done"
    /\ ReadNone
    /\ parse_out.outcome = "return"
    /\ Len(chapters_out.chapters) > 0

-----------------------------------------------------------------------------
(* Properties of the duration codec                                        *)

\* C15 as claimed: parse_timestamp accepts every HH:MM:SS.mmm with hours
\* 00-99, and format_timestamp_from_float of the parsed duration's seconds
\* is the same text with ',' for '.', also at 24 hours and more (strptime's
\* %H refuses hours above 23, and the formatter leaves out whole days).
CodecRoundTrip ==
    /\ pc = "raised" => stamp_out.outcome = "return"
    /\ pc = "encoded" => text_out = Replace(time_in, ".", ",")

-----------------------------------------------------------------------------
(* Properties of the ends parse_timecodes fills in                         *)

\* the Duration of a text H:M:S or H:M:S.f, in milliseconds, hours unbounded
MillisOf(text) ==
    LET parts == Split(text, ":")
        tail  == Split(parts[3], ".")
        whole == (DigitsVal(parts[1]) * 60 + DigitsVal(parts[2])) * 60 + DigitsVal(tail[1])
    IN  whole * 1000
        + (IF Len(tail) = 2 THEN DigitsVal(PadRight(tail[2], 6)) \div 1000 ELSE 0)

\* from the start of entry k to the start of entry k + 1, in milliseconds
GapAfter(list, k) == MillisOf(list[k + 1].start) - MillisOf(list[k].start)

\* C16 as claimed: in a returned list every non-last entry whose next start
\* is one second or more later, exactly one second included, has
\* end > start (at a gap of exactly one second convert_time gives
\* end = start).
PositiveLengthFromOneSecond ==
    ParseReturned =>
        \A k \in 1..(Len(parse_out.value) - 1) :
            GapAfter(parse_out.value, k) >= 1000
                => MillisOf(parse_out.value[k].end) > MillisOf(parse_out.value[k].start)

\* C16 amended: in a returned list every non-last entry whose next start is
\* one second or more later ends one second before that start, so
\* end >= start; end > start when the gap is more than one second, and
\* end = start when it is exactly one second.
ChapterLength ==
    ParseReturned =>
        \A k \in 1..(Len(parse_out.value) - 1) :
            LET gap   == GapAfter(parse_out.value, k)
                start == MillisOf(parse_out.value[k].start)
            IN  gap >= 1000 =>
                  LET end == MillisOf(parse_out.value[k].end) IN
                    /\ end = MillisOf(parse_out.value[k + 1].start) - 1000
                    /\ end >= start
                    /\ gap > 1000 => end > start
                    /\ gap = 1000 => end = start

\* C16 witness: a returned list whose second start is one second after the
\* zero start of the first entry, which ends where it starts
ChapterLengthWitness ==
    /\ pc = "parsed"
    /\ Len(parse_out.value) = 2
    /\ GapAfter(parse_out.value, 1) = 1000
    /\ MillisOf(parse_out.value[1].end) = 0

-----------------------------------------------------------------------------
(* Properties of convert_time on malformed input                           *)

\* C17 as claimed: on every text that is not digits:digits:digits[.digits]
\* convert_time ends with the error outcome (sys.exit(6)) and returns no
\* text (the fields the branch taken does not convert with int() are joined
\* back unread).
MalformedRejected ==
    pc # "convert" => (pc = "exited" /\ conv_out = Exited(6))

-----------------------------------------------------------------------------
(* Properties of a run of main on an edited sidecar                        *)

\* the list read_cue_file returned has an end on its last entry
ReadLastEnd ==
    /\ read_out.outcome = "return"
    /\ ~read_out.is_none
    /\ "end" \in DOMAIN read_out.value[Len(read_out.value)]

\* the duration as HH:MM:SS.mmm on a 24-hour clock, the whole days left out
DayClockText(td) ==
    Format0(td.seconds \div 3600, 2) \o <<":">>
    \o Format0((td.seconds % 3600) \div 60, 2) \o <<":">>
    \o Format0(td.seconds % 60, 2) \o <<".">>
    \o Format0(td.microseconds \div 1000, 3)

\* C18 as claimed: when the list comes from a sidecar whose last track
\* carries an END field, the last entry's end that reaches the chapter
\* blocks is that END value; the total duration is substituted only when
\* the last entry has no end.
LastEndKeptIfPresent ==
    (pc \in {"done", "raised"} /\ chapters_out # IdleChapters /\ ReadLastEnd)
        => chapters_out.timecodes[Len(chapters_out.timecodes)].end
             = read_out.value[Len(read_out.value)].end

\* C18 amended: whenever apply_chapters has run in main, the last entry's end
\* is the text rendered for the total duration (24-hour clock, '.' before the
\* milliseconds), whether the list was parsed from the transcript or read
\* from a sidecar, and whether or not the sidecar's last track carried an END
\* field: an END read there is replaced.
LastEndAlwaysRegenerated ==
    (pc \in {"done", "raised"} /\ chapters_out # IdleChapters)
        => chapters_out.timecodes[Len(chapters_out.timecodes)].end
             = DayClockText(total_duration)

\* C18 witness: a run read a sidecar whose last track carries END 00:30:00.000
\* and has written its chapter blocks with another end on the last entry
LastEndAlwaysRegeneratedWitness ==
    /\ pc = "done"
    /\ cue_fs = LastEndFile
    /\ ReadLastEnd
    /\ read_out.value[Len(read_out.value)].end = <<"0", "0", ":", "3", "0", ":", "0", "0", ".", "0", "0", "0">>
    /\ chapters_out.timecodes[Len(chapters_out.timecodes)].end
         # read_out.value[Len(read_out.value)].end

\* read_cue_file returned a non-empty list
ReadList(r) == r.outcome = "return" /\ ~r.is_none /\ Len(r.value) > 0

\* C19: in every run of main where the sidecar exists when it is checked and
\* read_cue_file returns a non-empty list, parse_timecodes and write_cue_file
\* are never invoked and apply_chapters is handed exactly the list read;
\* write_cue_file is invoked only where a sidecar path is configured and no
\* file exists at it (print_table, between the two, shows the list read or
\* ends the run).
SidecarPrecedence ==
    [][/\ ReadList(read_out') => (parse_out' = Idle /\ write_out' = IdleWrite)
       /\ (ReadList(read_out') /\ table_out' # IdleTable)
             => table_out' = print_table(read_out'.value, ReadKeys)
       /\ (ReadList(read_out') /\ pc' \in {"loaded", "listed", "tabled", "chaptering"})
             => timecodes_main' = ListOf(read_out'.value)
       /\ (ReadList(read_out) /\ pc = "chaptering" /\ pc' # "chaptering")
             => \E cover_art \in BOOLEAN :
                  chapters_out' = apply_chapters(read_out.value, total_duration',
                                                 cover_art)
       /\ write_out' # write_out => (cue_file /\ ~cue_fs.exists)
       /\ (pc = "tabled" /\ pc' # "tabled" /\ cue_file /\ ~cue_fs.exists)
             => write_out' # IdleWrite]_vars

\* C19 witness: a run has written its chapter blocks from the list of an
\* existing sidecar without parsing the transcript or writing a sidecar
SidecarPrecedenceWitness ==
    /\ pc = "done"
    /\ cue_file
    /\ cue_fs = EditedFile
    /\ ReadList(read_out)
    /\ read_out.value = EditedList
    /\ parse_out = Idle
    /\ write_out = IdleWrite
    /\ chapters_out.outcome = "return"
    /\ Len(chapters_out.chapters) = Len(EditedList)

\* C20 as claimed: every list main hands to apply_chapters, parsed or read
\* from an edited sidecar (also one where the END line of a track that is not
\* the last was removed), has a start and an end on every entry when its
\* chapter block is written, so the chapter loop never fails on a missing end
\* (print_table ends the run on a track without END that is not the last; a
\* last track without START passes it and fails the chapter loop).
CompleteAtMuxer ==
    chapters_out # IdleChapters =>
        \A k \in DOMAIN chapters_out.timecodes :
            {"start", "end"} \subseteq DOMAIN chapters_out.timecodes[k]

====
